---- MODULE Spec2Model ----
(***************************************************************************)
(* Model of the batch image compressor of src/index.js.                    *)
(*                                                                         *)
(* src/index.js holds two programs one after the other: lines 1-149 (the   *)
(* variant that always encodes JPEG and keeps the source file name) and    *)
(* lines 151-346 (the variant that takes a target extension).  The         *)
(* variable `variant` says which of the two is running.                    *)
(*                                                                         *)
(* Strings the code inspects (file names, the target extension) are        *)
(* sequences of one-character strings, so that the regular expression,     *)
(* toLowerCase and path.parse are computed and not assumed.                *)
(*                                                                         *)
(* Sizes: getFileSizeInMB returns bytes / 2^20.  A size in MB is           *)
(* represented by its numerator in bytes (the denominator 2^20 is common   *)
(* to every size), so sums and differences of MB values are sums and       *)
(* differences of numerators; floating-point rounding is not modelled.     *)
(***************************************************************************)
EXTENDS Integers, Sequences, FiniteSets, TLC

VARIABLES
    variant,            \* 1: program of lines 1-149, 2: program of lines 151-346
    targetExt,          \* argv.ext, a sequence of characters
    srcReadable,        \* whether fs.readdir(sourceDir) succeeds
    srcEntries,         \* directory listing order: sequence of [name, kind]
    pc,                 \* position in compressImagesInDirectory
    imageFiles,         \* const imageFiles (sequence of names)
    index,              \* loop index, 0-based as in the code
    cur,                \* locals of the iteration in flight
    result,             \* const result of the iteration in flight
    results,            \* the results returned so far, in order
    totalSavedSize,
    totalOriginalSize,
    progressValue,      \* value of the progress bar, -1 before progressBar.start
    exportDirCreated,   \* number of successful fs.ensureDir(exportDir)
    exportFiles,        \* files of exportDir: set of [base, src]
    summary,            \* the summary block printed at the end
    trace               \* side effects in the order they happened

vars == <<variant, targetExt, srcReadable, srcEntries, pc, imageFiles, index,
          cur, result, results, totalSavedSize, totalOriginalSize,
          progressValue, exportDirCreated, exportFiles, summary, trace>>

\* ------------------------------------------------------------------ bounds
MaxFiles == 2
MaxSize == 2

\* ----------------------------------------------------------------- strings
UpperAlpha == <<"A","B","C","D","E","F","G","H","I","J","K","L","M",
                "N","O","P","Q","R","S","T","U","V","W","X","Y","Z">>
LowerAlpha == <<"a","b","c","d","e","f","g","h","i","j","k","l","m",
                "n","o","p","q","r","s","t","u","v","w","x","y","z">>

LowerChar(c) ==
    IF \E i \in DOMAIN UpperAlpha : UpperAlpha[i] = c
    THEN LowerAlpha[CHOOSE i \in DOMAIN UpperAlpha : UpperAlpha[i] = c]
    ELSE c

toLowerCase(s) == [i \in DOMAIN s |-> LowerChar(s[i])]

S_jpg  == <<"j","p","g">>
S_jpeg == <<"j","p","e","g">>
S_png  == <<"p","n","g">>
S_webp == <<"w","e","b","p">>

\* the alternatives of /\.(jpg|jpeg|png|webp)$/i
RecognizedExts == {S_jpg, S_jpeg, S_png, S_webp}

\* /\.(jpg|jpeg|png|webp)$/i.test(file)
IsImageName(file) ==
    \E e \in RecognizedExts :
        /\ Len(file) >= Len(e) + 1
        /\ file[Len(file) - Len(e)] = "."
        /\ toLowerCase(SubSeq(file, Len(file) - Len(e) + 1, Len(file))) = e

\* files.filter((file) => regex.test(file))
FilterImages(names) == SelectSeq(names, IsImageName)

\* The right-to-left scan of path.parse over a name without separators:
\* st = <<startDot, preDotState>>, startDot = 0 while no dot was seen.
RECURSIVE ParseScan(_, _, _)
ParseScan(s, i, st) ==
    IF i = 0 THEN st
    ELSE IF s[i] = "."
         THEN IF st[1] = 0 THEN ParseScan(s, i - 1, <<i, st[2]>>)
              ELSE ParseScan(s, i - 1, <<st[1], 1>>)
         ELSE IF st[1] # 0 THEN ParseScan(s, i - 1, <<st[1], -1>>)
              ELSE ParseScan(s, i - 1, st)

\* path.parse(file).name
ParseName(file) ==
    LET st == ParseScan(file, Len(file), <<0, 0>>)
        startDot == st[1]
        preDotState == st[2]
    IN  IF \/ startDot = 0
           \/ preDotState = 0
           \/ (preDotState = 1 /\ startDot = Len(file) /\ startDot = 2)
        THEN file
        ELSE SubSeq(file, 1, startDot - 1)

\* ------------------------------------------------------------ environment
N_a_jpg   == <<"a",".","j","p","g">>
N_a_PNG   == <<"a",".","P","N","G">>
N_dot_jpg == <<".","j","p","g">>
N_c_txt   == <<"c",".","t","x","t">>
N_d_png   == <<"d",".","p","n","g">>

\* What the source directory may hold: regular files, and one subdirectory
\* whose name ends in a recognized extension.
Entries ==
    { [name |-> N_a_jpg,   kind |-> "file"],
      [name |-> N_a_PNG,   kind |-> "file"],
      [name |-> N_dot_jpg, kind |-> "file"],
      [name |-> N_c_txt,   kind |-> "file"],
      [name |-> N_d_png,   kind |-> "dir"] }

\* A directory listing: any order, no name twice, at most MaxFiles entries.
Listings ==
    { l \in UNION { [1..n -> Entries] : n \in 0..MaxFiles } :
        \A i, j \in DOMAIN l : i # j => l[i].name # l[j].name }

S_JPG == <<"J","P","G">>
S_gif == <<"g","i","f">>

\* values of --ext tried (the second program only)
TargetExts == {S_webp, S_JPG, S_gif}

\* sizes in bytes of a file that exists
Sizes == 1..MaxSize

NamesOf(entries) == [i \in DOMAIN entries |-> entries[i].name]

KindOf(file) ==
    LET i == CHOOSE j \in DOMAIN srcEntries : srcEntries[j].name = file
    IN  srcEntries[i].kind

\* --------------------------------------------------------------- helpers
Ev(e, k) == [ev |-> e, k |-> k]

Null == [isNull |-> TRUE, originalSize |-> 0, compressedSize |-> 0, savedSize |-> 0]

NoCur == [file |-> <<>>, outputBase |-> <<>>, originalSize |-> 0]

NoSummary ==
    [printed |-> FALSE, totalImages |-> 0, totalOriginalSize |-> 0,
     totalSavedSize |-> 0, percentage |-> [kind |-> "none", hundredths |-> 0]]

\* SwitchTarget without its default case: an unknown extension falls through
\* to an encoder instead of throwing.
SwitchTarget_NoDefault(ext) ==
    LET e == toLowerCase(ext)
    IN  IF e = S_webp THEN "webp"
        ELSE IF e = S_png THEN "png"
        ELSE "jpeg"

\* the switch on targetExt.toLowerCase(): the encoder chosen, or "throw"
SwitchTarget(ext) ==
    LET e == toLowerCase(ext)
    IN  IF e = S_jpeg \/ e = S_jpg THEN "jpeg"
        ELSE IF e = S_webp THEN "webp"
        ELSE IF e = S_png THEN "png"
        ELSE "throw"

\* the base name of outputPath (its directory is always exportDir)
OutputBase(v, file, ext) ==
    IF v = 1 THEN file
    ELSE ParseName(file) \o <<".">> \o ext

\* sharpInstance.toFile(outputPath) creates or overwrites the file
WriteFile(dir, base, src) ==
    {f \in dir : f.base # base} \cup {[base |-> base, src |-> src]}

\* ((totalSavedSize / totalOriginalSize) * 100).toFixed(2)
\* 0/0 is NaN and x/0 is +-Infinity; toFixed prints them as such.  A finite
\* value is printed rounded to hundredths, half away from zero.
PercentageToFixed(saved, orig) ==
    IF orig = 0
    THEN IF saved = 0 THEN [kind |-> "NaN", hundredths |-> 0]
         ELSE IF saved < 0 THEN [kind |-> "-Infinity", hundredths |-> 0]
         ELSE [kind |-> "Infinity", hundredths |-> 0]
    ELSE LET mag == IF saved < 0 THEN (0 - saved) * 10000 ELSE saved * 10000
             den == IF orig < 0 THEN 0 - orig ELSE orig
             n   == (2 * mag + den) \div (2 * den)
         IN  [kind |-> "number",
              hundredths |-> IF (saved < 0) # (orig < 0) THEN 0 - n ELSE n]

\* ------------------------------------------------------------------- Init
Init ==
    /\ variant \in {1, 2}
    /\ targetExt \in (IF variant = 1 THEN {<<>>} ELSE TargetExts)
    /\ srcReadable \in BOOLEAN
    /\ srcEntries \in (IF srcReadable THEN Listings ELSE {<<>>})
    /\ pc = "start"
    /\ imageFiles = <<>>
    /\ index = 0
    /\ cur = NoCur
    /\ result = Null
    /\ results = <<>>
    /\ totalSavedSize = 0
    /\ totalOriginalSize = 0
    /\ progressValue = -1
    /\ exportDirCreated = 0
    /\ exportFiles = {}
    /\ summary = NoSummary
    /\ trace = <<>>

\* ---------------------------------------------------------------- actions
\* ReadDir without the return of the empty case: the run goes on to
\* fs.ensureDir whatever the filter kept.
ReadDir_NoEarlyReturn ==
    /\ pc = "start"
    /\ IF ~srcReadable
       THEN /\ trace' = trace \o <<Ev("readdir", 0), Ev("errorProcessingDirectory", 0)>>
            /\ pc' = "done"
            /\ UNCHANGED imageFiles
       ELSE LET imgs == FilterImages(NamesOf(srcEntries))
            IN  /\ imageFiles' = imgs
                /\ IF Len(imgs) = 0
                   THEN /\ trace' = trace \o <<Ev("readdir", 0), Ev("noImageFiles", 0)>>
                        /\ pc' = "ensureDir"
                   ELSE /\ trace' = Append(trace, Ev("readdir", 0))
                        /\ pc' = "ensureDir"
    /\ UNCHANGED <<variant, targetExt, srcReadable, srcEntries, index, cur,
                   result, results, totalSavedSize, totalOriginalSize,
                   progressValue, exportDirCreated, exportFiles, summary>>

\* ReadDir with a failed listing taken for an empty one: no error is
\* reported, the run ends as if the directory held no image.
ReadDir_SwallowsError ==
    /\ pc = "start"
    /\ LET imgs == IF srcReadable THEN FilterImages(NamesOf(srcEntries)) ELSE <<>>
       IN  /\ imageFiles' = imgs
           /\ IF Len(imgs) = 0
              THEN /\ trace' = trace \o <<Ev("readdir", 0), Ev("noImageFiles", 0)>>
                   /\ pc' = "done"
              ELSE /\ trace' = Append(trace, Ev("readdir", 0))
                   /\ pc' = "ensureDir"
    /\ UNCHANGED <<variant, targetExt, srcReadable, srcEntries, index, cur,
                   result, results, totalSavedSize, totalOriginalSize,
                   progressValue, exportDirCreated, exportFiles, summary>>

\* await fs.readdir(sourceDir), the filter and the empty check; a rejected
\* readdir lands in the catch of compressImagesInDirectory.
ReadDir ==
    /\ pc = "start"
    /\ IF ~srcReadable
       THEN /\ trace' = trace \o <<Ev("readdir", 0), Ev("errorProcessingDirectory", 0)>>
            /\ pc' = "done"
            /\ UNCHANGED imageFiles
       ELSE LET imgs == FilterImages(NamesOf(srcEntries))
            IN  /\ imageFiles' = imgs
                /\ IF Len(imgs) = 0
                   THEN /\ trace' = trace \o <<Ev("readdir", 0), Ev("noImageFiles", 0)>>
                        /\ pc' = "done"
                   ELSE /\ trace' = Append(trace, Ev("readdir", 0))
                        /\ pc' = "ensureDir"
    /\ UNCHANGED <<variant, targetExt, srcReadable, srcEntries, index, cur,
                   result, results, totalSavedSize, totalOriginalSize,
                   progressValue, exportDirCreated, exportFiles, summary>>

\* await fs.ensureDir(exportDir) resolves; progress bar and totals are set up
EnsureDirOk ==
    /\ pc = "ensureDir"
    /\ exportDirCreated' = exportDirCreated + 1
    /\ totalSavedSize' = 0
    /\ totalOriginalSize' = 0
    /\ progressValue' = 0
    /\ index' = 0
    /\ trace' = trace \o <<Ev("ensureDir", 0), Ev("progressStart", Len(imageFiles))>>
    /\ pc' = "loop"
    /\ UNCHANGED <<variant, targetExt, srcReadable, srcEntries, imageFiles, cur,
                   result, results, exportFiles, summary>>

\* await fs.ensureDir(exportDir) rejects: the catch of the main function
EnsureDirFail ==
    /\ pc = "ensureDir"
    /\ trace' = Append(trace, Ev("errorProcessingDirectory", 0))
    /\ pc' = "done"
    /\ UNCHANGED <<variant, targetExt, srcReadable, srcEntries, imageFiles, index,
                   cur, result, results, totalSavedSize, totalOriginalSize,
                   progressValue, exportDirCreated, exportFiles, summary>>

\* The head of an iteration and compressImage up to its await: the paths,
\* statSync of the input, the switch (second program), the call of toFile.
\* A throw is caught inside compressImage, which logs and returns null.
CompressStart ==
    /\ pc = "loop"
    /\ LET file == imageFiles[index + 1]
           k == index + 1
           out == OutputBase(variant, file, targetExt)
       IN  \E statOk \in BOOLEAN, size \in Sizes :
             IF ~statOk \/ (variant = 2 /\ SwitchTarget(targetExt) = "throw")
             THEN /\ trace' = trace \o <<Ev("compressImage", k), Ev("errorCompressing", k)>>
                  /\ result' = Null
                  /\ cur' = [file |-> file, outputBase |-> out, originalSize |-> 0]
                  /\ pc' = "result"
             ELSE /\ trace' = trace \o <<Ev("compressImage", k), Ev("toFile", k)>>
                  /\ result' = Null
                  /\ cur' = [file |-> file, outputBase |-> out, originalSize |-> size]
                  /\ pc' = "encoding"
    /\ UNCHANGED <<variant, targetExt, srcReadable, srcEntries, imageFiles, index,
                   results, totalSavedSize, totalOriginalSize, progressValue,
                   exportDirCreated, exportFiles, summary>>

\* toFile resolves: the output exists, it is measured, the result returned
CompressOk ==
    /\ pc = "encoding"
    /\ KindOf(cur.file) = "file"
    /\ \E csize \in Sizes :
         result' = [isNull |-> FALSE, originalSize |-> cur.originalSize,
                    compressedSize |-> csize,
                    savedSize |-> cur.originalSize - csize]
    /\ exportFiles' = WriteFile(exportFiles, cur.outputBase, cur.file)
    /\ trace' = Append(trace, Ev("written", index + 1))
    /\ pc' = "result"
    /\ UNCHANGED <<variant, targetExt, srcReadable, srcEntries, imageFiles, index,
                   cur, results, totalSavedSize, totalOriginalSize, progressValue,
                   exportDirCreated, summary>>

\* CompressFail without the try/catch of compressImage: the rejection reaches
\* the catch of compressImagesInDirectory and ends the run.
CompressFail_Uncaught ==
    /\ pc = "encoding"
    /\ result' = Null
    /\ trace' = Append(trace, Ev("errorProcessingDirectory", 0))
    /\ pc' = "done"
    /\ UNCHANGED <<variant, targetExt, srcReadable, srcEntries, imageFiles, index,
                   cur, results, totalSavedSize, totalOriginalSize, progressValue,
                   exportDirCreated, exportFiles, summary>>

\* toFile rejects (the codec cannot read the input, the output cannot be
\* written): caught inside compressImage, logged, null returned
CompressFail ==
    /\ pc = "encoding"
    /\ result' = Null
    /\ trace' = Append(trace, Ev("errorCompressing", index + 1))
    /\ pc' = "result"
    /\ UNCHANGED <<variant, targetExt, srcReadable, srcEntries, imageFiles, index,
                   cur, results, totalSavedSize, totalOriginalSize, progressValue,
                   exportDirCreated, exportFiles, summary>>

\* LoopStep adding the compressed size, not the saved size, to totalSavedSize
LoopStep_AddsCompressed ==
    /\ pc = "result"
    /\ IF ~result.isNull
       THEN /\ totalOriginalSize' = totalOriginalSize + result.originalSize
            /\ totalSavedSize' = totalSavedSize + result.compressedSize
            /\ trace' = trace \o <<Ev("fileInfo", index + 1), Ev("progress", index + 1)>>
       ELSE /\ UNCHANGED <<totalOriginalSize, totalSavedSize>>
            /\ trace' = Append(trace, Ev("progress", index + 1))
    /\ progressValue' = index + 1
    /\ results' = Append(results, result)
    /\ index' = index + 1
    /\ cur' = NoCur
    /\ result' = Null
    /\ pc' = IF index + 1 = Len(imageFiles) THEN "summary" ELSE "loop"
    /\ UNCHANGED <<variant, targetExt, srcReadable, srcEntries, imageFiles,
                   exportDirCreated, exportFiles, summary>>

\* LoopStep with progressBar.update inside the if (result) block
LoopStep_ProgressOnSuccessOnly ==
    /\ pc = "result"
    /\ IF ~result.isNull
       THEN /\ totalOriginalSize' = totalOriginalSize + result.originalSize
            /\ totalSavedSize' = totalSavedSize + result.savedSize
            /\ trace' = trace \o <<Ev("fileInfo", index + 1), Ev("progress", index + 1)>>
            /\ progressValue' = index + 1
       ELSE /\ UNCHANGED <<totalOriginalSize, totalSavedSize, trace, progressValue>>
    /\ results' = Append(results, result)
    /\ index' = index + 1
    /\ cur' = NoCur
    /\ result' = Null
    /\ pc' = IF index + 1 = Len(imageFiles) THEN "summary" ELSE "loop"
    /\ UNCHANGED <<variant, targetExt, srcReadable, srcEntries, imageFiles,
                   exportDirCreated, exportFiles, summary>>

\* if (result) { totals += ...; console.log(fileInfo) }; progressBar.update
LoopStep ==
    /\ pc = "result"
    /\ IF ~result.isNull
       THEN /\ totalOriginalSize' = totalOriginalSize + result.originalSize
            /\ totalSavedSize' = totalSavedSize + result.savedSize
            /\ trace' = trace \o <<Ev("fileInfo", index + 1), Ev("progress", index + 1)>>
       ELSE /\ UNCHANGED <<totalOriginalSize, totalSavedSize>>
            /\ trace' = Append(trace, Ev("progress", index + 1))
    /\ progressValue' = index + 1
    /\ results' = Append(results, result)
    /\ index' = index + 1
    /\ cur' = NoCur
    /\ result' = Null
    /\ pc' = IF index + 1 = Len(imageFiles) THEN "summary" ELSE "loop"
    /\ UNCHANGED <<variant, targetExt, srcReadable, srcEntries, imageFiles,
                   exportDirCreated, exportFiles, summary>>

\* progressBar.stop, spinner.succeed and the summary block
Summary ==
    /\ pc = "summary"
    /\ summary' = [printed |-> TRUE,
                   totalImages |-> Len(imageFiles),
                   totalOriginalSize |-> totalOriginalSize,
                   totalSavedSize |-> totalSavedSize,
                   percentage |-> PercentageToFixed(totalSavedSize, totalOriginalSize)]
    /\ trace' = trace \o <<Ev("progressStop", 0), Ev("summary", 0)>>
    /\ pc' = "done"
    /\ UNCHANGED <<variant, targetExt, srcReadable, srcEntries, imageFiles, index,
                   cur, result, results, totalSavedSize, totalOriginalSize,
                   progressValue, exportDirCreated, exportFiles>>

Next ==
    \/ ReadDir
    \/ EnsureDirOk
    \/ EnsureDirFail
    \/ CompressStart
    \/ CompressOk
    \/ CompressFail
    \/ LoopStep
    \/ Summary

Spec == Init /\ [][Next]_vars

\* Every await of the code settles: promises resolve or reject, no step waits
\* on anything but the operation it awaits.
FairSpec == Spec /\ WF_vars(Next)

\* ------------------------------------------------------------ properties
\* how often the side effect Ev(e, k) happened
Count(e, k) == Cardinality({i \in DOMAIN trace : trace[i] = Ev(e, k)})

RECURSIVE SumOriginal(_)
SumOriginal(rs) ==
    IF rs = <<>> THEN 0
    ELSE (IF rs[1].isNull THEN 0 ELSE rs[1].originalSize) + SumOriginal(Tail(rs))

RECURSIVE SumSaved(_)
SumSaved(rs) ==
    IF rs = <<>> THEN 0
    ELSE (IF rs[1].isNull THEN 0 ELSE rs[1].originalSize - rs[1].compressedSize)
         + SumSaved(Tail(rs))

Successes(rs) == Cardinality({i \in DOMAIN rs : ~rs[i].isNull})

AllAttemptedOnce == \A k \in DOMAIN imageFiles : Count("compressImage", k) = 1

\* C1: once the loop is reached, every retained file is attempted exactly
\* once whatever the other files do: no file is attempted twice, a failure
\* is logged for that file and returned as null with the loop still running,
\* and the run always goes on to the summary with every file attempted.
C1_FailureNeverAbortsBatch ==
    /\ [](\A k \in DOMAIN imageFiles : Count("compressImage", k) <= 1)
    /\ [](\A k \in DOMAIN results :
            results[k].isNull <=> Count("errorCompressing", k) = 1)
    /\ [](Count("errorProcessingDirectory", 0) > 0 => exportDirCreated = 0)
    /\ (exportDirCreated = 1) ~> (summary.printed /\ AllAttemptedOnce)

\* a finished run whose first file failed and whose second file succeeded
C1_Witness ==
    /\ pc = "done"
    /\ summary.printed
    /\ Len(results) = 2
    /\ results[1].isNull
    /\ ~results[2].isNull
    /\ Count("toFile", 1) = 1

\* C2: the percentage of the summary is a number, also when the total
\* original size is zero.
C2_PercentageWellDefined ==
    summary.printed => summary.percentage.kind = "number"

\* C3: when no listed name has a recognized extension, the run reports the
\* no-image-files condition and does nothing else.
C3_NoImagesDoesNothingElse ==
    (pc # "start" /\ srcReadable /\ \A i \in DOMAIN srcEntries : ~IsImageName(srcEntries[i].name))
        => /\ pc = "done"
           /\ trace = <<Ev("readdir", 0), Ev("noImageFiles", 0)>>
           /\ exportDirCreated = 0
           /\ exportFiles = {}
           /\ progressValue = -1
           /\ results = <<>>
           /\ ~summary.printed

\* a listed, non-empty directory without any image name, after the run
C3_Witness ==
    /\ pc = "done"
    /\ srcReadable
    /\ Len(srcEntries) > 0
    /\ imageFiles = <<>>
    /\ Count("noImageFiles", 0) = 1

\* C4: after every iteration the two totals are the sums, over the non-null
\* results so far, of originalSize and of original minus compressed size;
\* the summary prints those totals.
C4_TotalsAreSumsOverSuccesses ==
    /\ totalOriginalSize = SumOriginal(results)
    /\ totalSavedSize = SumSaved(results)
    /\ \A k \in DOMAIN results :
         ~results[k].isNull =>
            results[k].savedSize = results[k].originalSize - results[k].compressedSize
    /\ summary.printed =>
         /\ summary.totalOriginalSize = SumOriginal(results)
         /\ summary.totalSavedSize = SumSaved(results)

\* a failure between two successes, one of them larger after compression
C4_Witness ==
    /\ summary.printed
    /\ \E i, j \in DOMAIN results :
         /\ results[i].isNull
         /\ ~results[j].isNull
         /\ results[j].savedSize < 0
    /\ totalOriginalSize > 0

\* C5: with a target extension that is not jpg, jpeg, png or webp in any
\* letter case, no file is ever handed to the encoder, nothing is written,
\* every result is null, and the loop still goes through every file.
C5_UnsupportedTargetFailsEachFile ==
    (variant = 2 /\ toLowerCase(targetExt) \notin {S_jpg, S_jpeg, S_png, S_webp})
        => /\ pc # "encoding"
           /\ \A k \in DOMAIN imageFiles : Count("toFile", k) = 0
           /\ exportFiles = {}
           /\ \A k \in DOMAIN results : results[k].isNull
           /\ (pc = "done" /\ exportDirCreated = 1)
                 => (summary.printed /\ AllAttemptedOnce
                     /\ Len(results) = Len(imageFiles))

\* a finished run over two files with the target extension gif
C5_Witness ==
    /\ variant = 2
    /\ targetExt = S_gif
    /\ summary.printed
    /\ Len(results) = 2
    /\ AllAttemptedOnce

\* whether e is a regular file with a recognized extension
IsImageFileEntry(e) == e.kind = "file" /\ IsImageName(e.name)

\* C6: the retained list is, in listing order, the entries that are files
\* with a recognized extension; subdirectories are excluded.
C6_DiscoveryExcludesSubdirectories ==
    (pc # "start" /\ srcReadable)
        => imageFiles = NamesOf(SelectSeq(srcEntries, IsImageFileEntry))

\* the name with its recognized extension, and the dot before it, removed
RECURSIVE StripExt(_)
StripExt(file) ==
    IF file = <<>> THEN <<>>
    ELSE IF file[Len(file)] = "." THEN SubSeq(file, 1, Len(file) - 1)
    ELSE StripExt(SubSeq(file, 1, Len(file) - 1))

\* the characters after the last dot
RECURSIVE LastExt(_)
LastExt(file) ==
    IF file = <<>> THEN <<>>
    ELSE IF file[Len(file)] = "." THEN <<>>
    ELSE LastExt(SubSeq(file, 1, Len(file) - 1)) \o <<file[Len(file)]>>

\* C7: the destination name is the source name with its extension replaced
\* by the extension of the target format (the first program always encodes
\* JPEG, so there the extension is jpg or jpeg).
C7_DestinationReplacesExtension ==
    (pc \in {"encoding", "result"})
        => /\ StripExt(cur.outputBase) = StripExt(cur.file)
           /\ IF variant = 1
              THEN toLowerCase(LastExt(cur.outputBase)) \in {S_jpg, S_jpeg}
              ELSE LastExt(cur.outputBase) = targetExt

\* C8: when the listing fails, the error is reported once and nothing else
\* happens: no export directory, no attempt, no progress, no summary, no
\* second listing.
C8_ListingFailureAbortsRun ==
    (pc # "start" /\ ~srcReadable)
        => /\ pc = "done"
           /\ trace = <<Ev("readdir", 0), Ev("errorProcessingDirectory", 0)>>
           /\ exportDirCreated = 0
           /\ exportFiles = {}
           /\ progressValue = -1
           /\ results = <<>>
           /\ ~summary.printed

\* the run after a failed listing
C8_Witness ==
    /\ ~srcReadable
    /\ pc = "done"
    /\ Count("errorProcessingDirectory", 0) = 1

\* the events the ordering is about, in the order they happened: e the
\* creation of the export directory, s/c the start and the completion of a
\* compression, p the progress update, f the summary
IsOrderEvent(x) ==
    x.ev \in {"ensureDir", "compressImage", "toFile", "written",
              "errorCompressing", "progress", "summary"}

\* whether t continues the one allowed order from file k on, `stage` being
\* how far file k got: ensureDir first, then for each file in turn its start,
\* toFile unless it failed before, its completion and its progress update,
\* and the summary after the last file
RECURSIVE InOrder(_, _, _)
InOrder(t, k, stage) ==
    IF t = <<>> THEN TRUE
    ELSE LET x == t[1] IN
         CASE stage = "begin"   -> x = Ev("ensureDir", 0) /\ InOrder(Tail(t), 1, "idle")
           [] stage = "idle"    ->
                 \/ (x = Ev("compressImage", k) /\ k <= Len(imageFiles)
                        /\ InOrder(Tail(t), k, "started"))
                 \/ (x = Ev("summary", 0) /\ k = Len(imageFiles) + 1
                        /\ InOrder(Tail(t), k, "end"))
           [] stage = "started" ->
                 \/ (x = Ev("toFile", k) /\ InOrder(Tail(t), k, "toFile"))
                 \/ (x = Ev("errorCompressing", k) /\ InOrder(Tail(t), k, "completed"))
           [] stage = "toFile"  ->
                 (x = Ev("written", k) \/ x = Ev("errorCompressing", k))
                    /\ InOrder(Tail(t), k, "completed")
           [] stage = "completed" ->
                 x = Ev("progress", k) /\ InOrder(Tail(t), k + 1, "idle")
           [] OTHER -> FALSE

\* C9: the export directory is created once and first; files are compressed
\* one at a time in listing order, each started only after the one before
\* completed and the progress bar was set to its number; the progress value
\* is the number of files completed whatever their outcome, and is the number
\* of retained files when the summary is printed.
C9_FixedEventOrder ==
    /\ InOrder(SelectSeq(trace, IsOrderEvent), 1, "begin")
    /\ exportDirCreated <= 1
    /\ progressValue >= 0 =>
         /\ progressValue = Len(results)
         /\ \A k \in 1..Len(imageFiles) :
               Count("progress", k) = (IF k <= progressValue THEN 1 ELSE 0)
    /\ summary.printed => progressValue = Len(imageFiles)

\* a finished run of two files, the first one failed
C9_Witness ==
    /\ summary.printed
    /\ Len(imageFiles) = 2
    /\ results[1].isNull
    /\ ~results[2].isNull
    /\ progressValue = 2

\* C10: between iterations the export directory holds one file per
\* successful result: no output was overwritten by a later one.
C10_OneOutputPerSuccess ==
    (pc \in {"loop", "summary", "done"})
        => Cardinality(exportFiles) = Successes(results)

====
